---- MODULE Spec2Model ----
(***************************************************************************)
(* A model of ai_cv_reviewergemini.py: the start-up code of the module,    *)
(* main's loop over the candidate files, call_gemini, validate_hr_json,    *)
(* build_prompt, generate_report_md and the JSON conversions main and      *)
(* call_gemini use (json.dumps(..., ensure_ascii=False, indent=2) and      *)
(* json.loads).                                                            *)
(*                                                                         *)
(* A Python str that holds JSON text, a key or a credential is a sequence  *)
(* of one-character strings.  A text document (jd.txt, cv{i}.txt, a        *)
(* prompt) is a sequence of lines, the text split at its newlines; a line  *)
(* is a sequence of segments whose concatenation is the line.              *)
(***************************************************************************)
EXTENDS Integers, Sequences, FiniteSets, TLC

VARIABLES
    pc,              \* position of the process in the module code and in main
    i,               \* the loop variable of main (enumerate(CV_PATHS, start=1))
    environ,         \* os.environ.get("GEMINI_API_KEY", ""), a str
    jd_file,         \* sample_inputs/jd.txt: [exists, text]
    cv_files,        \* sample_inputs/cv{i}.txt: i -> [exists, text]
    GEMINI_API_KEY,  \* the module global
    jd_text,         \* main's local
    cv_text,         \* main's local
    prompt_text,     \* main's local
    model_json,      \* main's local
    outputs,         \* prompts/ and outputs/: file name -> [exists, data]
    trace,           \* what the run did so far, in order: events [e, f, i]
    returned,        \* history: what call_gemini returned for candidate i
    run,             \* history: the number of this run of the script
    arg,             \* argument of the function under test (function specs)
    res              \* its result (function specs)

vars == <<pc, i, environ, jd_file, cv_files, GEMINI_API_KEY, jd_text,
          cv_text, prompt_text, model_json, outputs, trace, returned, arg, res, run>>

(***************************************************************************)
(* Bounds of the model.                                                    *)
(***************************************************************************)
MaxItems == 1        \* longest array among the field values tried
MaxChunks == 2       \* most pieces a document under test is put together from
MaxRuns == 2         \* most runs of the script over one output directory
MaxEntries == 2      \* longest strengths or missing_requirements list rendered

(***************************************************************************)
(* Python values decoded from JSON (what json.loads returns).              *)
(*   None -> null, bool, int, float, str, list, dict.  A dict keeps its    *)
(*   keys in insertion order.  A float is sign, integer part and the       *)
(*   digits after the point without trailing zeros (no exponent forms).    *)
(***************************************************************************)
JNull == [t |-> "null"]
JBool(b) == [t |-> "bool", b |-> b]
JInt(n) == [t |-> "int", n |-> n]
JFloat(neg, n, fr) == [t |-> "float", neg |-> neg, n |-> n, fr |-> fr]
JStr(s) == [t |-> "str", s |-> s]
JList(items) == [t |-> "list", items |-> items]
JDict(keys, vals) == [t |-> "dict", keys |-> keys, vals |-> vals]

\* k in obj
HasKey(obj, k) == \E j \in 1..Len(obj.keys) : obj.keys[j] = k

\* obj[k] for a key that is present
Item(obj, k) == obj.vals[CHOOSE j \in 1..Len(obj.keys) : obj.keys[j] = k]

\* obj.get(k): None when the key is absent
Get(obj, k) == IF HasKey(obj, k) THEN Item(obj, k) ELSE JNull

\* obj[k] = v: a new key is appended, an old key keeps its place
SetItem(obj, k, v) ==
    IF HasKey(obj, k)
    THEN JDict(obj.keys,
               [j \in 1..Len(obj.keys) |->
                   IF obj.keys[j] = k THEN v ELSE obj.vals[j]])
    ELSE JDict(Append(obj.keys, k), Append(obj.vals, v))

(***************************************************************************)
(* The key and verdict literals of the program.                            *)
(***************************************************************************)
K_match_score == <<"m","a","t","c","h","_","s","c","o","r","e">>
K_summary == <<"s","u","m","m","a","r","y">>
K_strengths == <<"s","t","r","e","n","g","t","h","s">>
K_missing_requirements ==
    <<"m","i","s","s","i","n","g","_","r","e","q","u","i","r","e","m","e","n","t","s">>
K_verdict == <<"v","e","r","d","i","c","t">>

REQUIRED_KEYS ==
    <<K_match_score, K_summary, K_strengths, K_missing_requirements, K_verdict>>

V_strong_match == <<"s","t","r","o","n","g"," ","m","a","t","c","h">>
V_possible_match == <<"p","o","s","s","i","b","l","e"," ","m","a","t","c","h">>
V_not_a_match == <<"n","o","t"," ","a"," ","m","a","t","c","h">>

VERDICTS == <<V_strong_match, V_possible_match, V_not_a_match>>

(***************************************************************************)
(* json.dumps(obj, ensure_ascii=False, indent=2)                           *)
(***************************************************************************)
DigitChars == <<"0","1","2","3","4","5","6","7","8","9">>

IsDigit(c) == \E d \in 1..10 : DigitChars[d] = c

DigitVal(c) == (CHOOSE d \in 1..10 : DigitChars[d] = c) - 1

\* int.__repr__ of n >= 0
RECURSIVE NatRepr(_)
NatRepr(n) ==
    IF n < 10 THEN <<DigitChars[n + 1]>>
    ELSE NatRepr(n \div 10) \o <<DigitChars[(n % 10) + 1]>>

\* a variant of IntRepr: an int is written the way a float is
IntReprAsFloat(n) ==
    (IF n < 0 THEN <<"-">> \o NatRepr(0 - n) ELSE NatRepr(n)) \o <<".", "0">>

\* int.__repr__
IntRepr(n) == IF n < 0 THEN <<"-">> \o NatRepr(0 - n) ELSE NatRepr(n)

\* the digits after the point, as characters
FracRepr(fr) == [j \in 1..Len(fr) |-> DigitChars[fr[j] + 1]]

\* float.__repr__ (a finite float written without exponent)
FloatRepr(v) ==
    (IF v.neg THEN <<"-">> ELSE <<>>) \o NatRepr(v.n) \o <<".">>
    \o (IF v.fr = <<>> THEN <<"0">> ELSE FracRepr(v.fr))

\* ESCAPE_DCT: the characters a JSON string writes with a backslash
EscapeOf(c) ==
    CASE c = "\"" -> <<"\\", "\"">>
      [] c = "\\" -> <<"\\", "\\">>
      [] c = "\n" -> <<"\\", "n">>
      [] c = "\r" -> <<"\\", "r">>
      [] c = "\t" -> <<"\\", "t">>
      [] OTHER -> <<c>>

\* the body of a JSON string
RECURSIVE Escape(_)
Escape(s) == IF s = <<>> THEN <<>> ELSE EscapeOf(Head(s)) \o Escape(Tail(s))

\* encode_basestring
StrRepr(s) == <<"\"">> \o Escape(s) \o <<"\"">>

\* a newline and the indentation of nesting depth level (indent=2)
RECURSIVE Spaces(_)
Spaces(n) == IF n = 0 THEN <<>> ELSE <<" ">> \o Spaces(n - 1)

NewlineIndent(level) == <<"\n">> \o Spaces(2 * level)

\* the parts joined with "," and a newline with the indentation
RECURSIVE JoinItems(_, _)
JoinItems(parts, level) ==
    IF Len(parts) = 1 THEN parts[1]
    ELSE parts[1] \o <<",">> \o NewlineIndent(level) \o JoinItems(Tail(parts), level)

RECURSIVE Encode(_, _)
Encode(v, level) ==
    CASE v.t = "null" -> <<"n","u","l","l">>
      [] v.t = "bool" -> IF v.b THEN <<"t","r","u","e">> ELSE <<"f","a","l","s","e">>
      [] v.t = "int" -> IntRepr(v.n)
      [] v.t = "float" -> FloatRepr(v)
      [] v.t = "str" -> StrRepr(v.s)
      [] v.t = "list" ->
           IF v.items = <<>> THEN <<"[", "]">>
           ELSE <<"[">> \o NewlineIndent(level + 1)
                \o JoinItems([j \in 1..Len(v.items) |-> Encode(v.items[j], level + 1)],
                             level + 1)
                \o NewlineIndent(level) \o <<"]">>
      [] v.t = "dict" ->
           IF v.keys = <<>> THEN <<"{", "}">>
           ELSE <<"{">> \o NewlineIndent(level + 1)
                \o JoinItems([j \in 1..Len(v.keys) |->
                                 StrRepr(v.keys[j]) \o <<":", " ">>
                                 \o Encode(v.vals[j], level + 1)],
                             level + 1)
                \o NewlineIndent(level) \o <<"}">>

json_dumps(obj) == Encode(obj, 0)

(***************************************************************************)
(* json.loads(s): the scanner of json.decoder and json.scanner.  A scan    *)
(* returns [ok, v, i]: whether a value was read, the value, and the index  *)
(* after it.  Exponents, \u escapes, NaN and Infinity are not modelled: no *)
(* text of the model holds them.                                           *)
(***************************************************************************)
IsWs(c) == c \in {" ", "\t", "\n", "\r"}

RECURSIVE SkipWs(_, _)
SkipWs(s, j) == IF j <= Len(s) /\ IsWs(s[j]) THEN SkipWs(s, j + 1) ELSE j

ScanFail == [ok |-> FALSE, v |-> JNull, i |-> 0]

ScanOk(v, j) == [ok |-> TRUE, v |-> v, i |-> j]

\* s[j:j+len(lit)] == lit
Matches(s, j, lit) ==
    /\ j + Len(lit) - 1 <= Len(s)
    /\ SubSeq(s, j, j + Len(lit) - 1) = lit

\* BACKSLASH: the character an escape stands for
Unescape(c) ==
    CASE c = "n" -> "\n"
      [] c = "r" -> "\r"
      [] c = "t" -> "\t"
      [] OTHER -> c

\* py_scanstring (strict): j is the index after the opening quote
RECURSIVE ScanString(_, _, _)
ScanString(s, j, acc) ==
    IF j > Len(s) THEN ScanFail
    ELSE IF s[j] = "\"" THEN ScanOk(JStr(acc), j + 1)
    ELSE IF s[j] = "\\"
         THEN IF j + 1 <= Len(s) /\ s[j + 1] \in {"\"", "\\", "/", "n", "r", "t"}
              THEN ScanString(s, j + 2, Append(acc, Unescape(s[j + 1])))
              ELSE ScanFail
    ELSE IF s[j] \in {"\n", "\r", "\t"} THEN ScanFail
    ELSE ScanString(s, j + 1, Append(acc, s[j]))

\* the index after the run of digits that starts at j
RECURSIVE DigitsEnd(_, _)
DigitsEnd(s, j) == IF j <= Len(s) /\ IsDigit(s[j]) THEN DigitsEnd(s, j + 1) ELSE j

\* int() of the digits s[a..b]
RECURSIVE DigitsValue(_, _, _)
DigitsValue(s, a, b) ==
    IF b < a THEN 0 ELSE 10 * DigitsValue(s, a, b - 1) + DigitVal(s[b])

\* the digits s[a..b] without trailing zeros
RECURSIVE FracDigits(_, _, _)
FracDigits(s, a, b) ==
    IF b < a THEN <<>>
    ELSE IF s[b] = "0" THEN FracDigits(s, a, b - 1)
    ELSE [j \in 1..(b - a + 1) |-> DigitVal(s[a + j - 1])]

\* NUMBER_RE.match at j: an int unless a fraction follows
ScanNumber(s, j) ==
    LET neg == s[j] = "-"
        a == IF neg THEN j + 1 ELSE j
    IN  IF a > Len(s) \/ ~IsDigit(s[a]) THEN ScanFail
        ELSE LET b == IF s[a] = "0" THEN a + 1 ELSE DigitsEnd(s, a)
                 frac == b + 1 <= Len(s) /\ s[b] = "." /\ IsDigit(s[b + 1])
                 c == DigitsEnd(s, b + 1)
                 n == DigitsValue(s, a, b - 1)
             IN  IF frac
                 THEN ScanOk(JFloat(neg, n, FracDigits(s, b + 1, c - 1)), c)
                 ELSE ScanOk(JInt(IF neg THEN 0 - n ELSE n), b)

RECURSIVE ScanOnce(_, _)
RECURSIVE ArrayItems(_, _, _)
RECURSIVE ObjectItems(_, _, _)

\* JSONArray, from the first item on
ArrayItems(s, j, acc) ==
    LET r == ScanOnce(s, j)
        k == SkipWs(s, r.i)
    IN  IF ~r.ok THEN ScanFail
        ELSE IF k > Len(s) THEN ScanFail
        ELSE IF s[k] = "]" THEN ScanOk(JList(Append(acc, r.v)), k + 1)
        ELSE IF s[k] = "," THEN ArrayItems(s, SkipWs(s, k + 1), Append(acc, r.v))
        ELSE ScanFail

\* JSONObject, from the quote of the first key on; a repeated key overwrites
ObjectItems(s, j, acc) ==
    IF j > Len(s) \/ s[j] # "\"" THEN ScanFail
    ELSE LET kr == ScanString(s, j + 1, <<>>)
             c == SkipWs(s, kr.i)
             vr == ScanOnce(s, SkipWs(s, c + 1))
             k == SkipWs(s, vr.i)
             acc2 == SetItem(acc, kr.v.s, vr.v)
         IN  IF ~kr.ok THEN ScanFail
             ELSE IF c > Len(s) \/ s[c] # ":" THEN ScanFail
             ELSE IF ~vr.ok THEN ScanFail
             ELSE IF k > Len(s) THEN ScanFail
             ELSE IF s[k] = "}" THEN ScanOk(acc2, k + 1)
             ELSE IF s[k] = "," THEN ObjectItems(s, SkipWs(s, k + 1), acc2)
             ELSE ScanFail

\* scan_once
ScanOnce(s, j) ==
    IF j > Len(s) THEN ScanFail
    ELSE IF s[j] = "\"" THEN ScanString(s, j + 1, <<>>)
    ELSE IF s[j] = "{"
         THEN LET k == SkipWs(s, j + 1)
              IN  IF k <= Len(s) /\ s[k] = "}" THEN ScanOk(JDict(<<>>, <<>>), k + 1)
                  ELSE ObjectItems(s, k, JDict(<<>>, <<>>))
    ELSE IF s[j] = "["
         THEN LET k == SkipWs(s, j + 1)
              IN  IF k <= Len(s) /\ s[k] = "]" THEN ScanOk(JList(<<>>), k + 1)
                  ELSE ArrayItems(s, k, <<>>)
    ELSE IF Matches(s, j, <<"n","u","l","l">>) THEN ScanOk(JNull, j + 4)
    ELSE IF Matches(s, j, <<"t","r","u","e">>) THEN ScanOk(JBool(TRUE), j + 4)
    ELSE IF Matches(s, j, <<"f","a","l","s","e">>) THEN ScanOk(JBool(FALSE), j + 5)
    ELSE IF s[j] = "-" \/ IsDigit(s[j]) THEN ScanNumber(s, j)
    ELSE ScanFail

\* json.loads(s): [ok, v]; ok is FALSE where json.JSONDecodeError is raised
json_loads(s) ==
    LET r == ScanOnce(s, SkipWs(s, 1))
    IN  IF r.ok /\ SkipWs(s, r.i) = Len(s) + 1
        THEN [ok |-> TRUE, v |-> r.v]
        ELSE [ok |-> FALSE, v |-> JNull]

(***************************************************************************)
(* validate_hr_json                                                        *)
(***************************************************************************)
\* isinstance(v, int): bool is a subclass of int
IsInstanceInt(v) == v.t \in {"int", "bool"}

\* the number an int (or a bool, as an int) compares as
IntValue(v) == IF v.t = "bool" THEN (IF v.b THEN 1 ELSE 0) ELSE v.n

\* v in [...] for a list of str literals: equal to one of them
InLiterals(v, literals) ==
    v.t = "str" /\ \E j \in 1..Len(literals) : literals[j] = v.s

\* the check of match_score
ScoreOk(v) == IsInstanceInt(v) /\ 0 <= IntValue(v) /\ IntValue(v) <= 100

validate_hr_json(obj) ==
    IF obj.t # "dict" THEN FALSE
    ELSE IF \E j \in 1..Len(REQUIRED_KEYS) : ~HasKey(obj, REQUIRED_KEYS[j]) THEN FALSE
    ELSE IF ~ScoreOk(Get(obj, K_match_score)) THEN FALSE
    ELSE IF Get(obj, K_summary).t # "str" THEN FALSE
    ELSE IF Get(obj, K_strengths).t # "list" THEN FALSE
    ELSE IF Get(obj, K_missing_requirements).t # "list" THEN FALSE
    ELSE IF ~InLiterals(Get(obj, K_verdict), VERDICTS) THEN FALSE
    ELSE TRUE

(***************************************************************************)
(* generate_report_md.  The report is a str, a sequence of characters; a   *)
(* character outside ASCII is written U+ and its code point.  An f-string  *)
(* formats a value with str().                                             *)
(***************************************************************************)
\* "sep".join(parts)
RECURSIVE Join(_, _)
Join(sep, parts) ==
    IF parts = <<>> THEN <<>>
    ELSE IF Len(parts) = 1 THEN parts[1]
    ELSE parts[1] \o sep \o Join(sep, Tail(parts))

\* str.__repr__: the quote is " when the str holds ' and no ", else '
ReprQuote(s) ==
    IF (\E j \in 1..Len(s) : s[j] = "'") /\ ~(\E j \in 1..Len(s) : s[j] = "\"")
    THEN "\"" ELSE "'"

ReprChar(c, quote) ==
    CASE c = "\\" -> <<"\\", "\\">>
      [] c = "\n" -> <<"\\", "n">>
      [] c = "\r" -> <<"\\", "r">>
      [] c = "\t" -> <<"\\", "t">>
      [] c = quote -> <<"\\", c>>
      [] OTHER -> <<c>>

StrReprPy(s) ==
    <<ReprQuote(s)>>
    \o Join(<<>>, [j \in 1..Len(s) |-> ReprChar(s[j], ReprQuote(s))])
    \o <<ReprQuote(s)>>

\* repr(v) of a decoded value
RECURSIVE PyRepr(_)
PyRepr(v) ==
    CASE v.t = "null" -> <<"N","o","n","e">>
      [] v.t = "bool" -> IF v.b THEN <<"T","r","u","e">> ELSE <<"F","a","l","s","e">>
      [] v.t = "int" -> IntRepr(v.n)
      [] v.t = "float" -> FloatRepr(v)
      [] v.t = "str" -> StrReprPy(v.s)
      [] v.t = "list" ->
            <<"[">> \o Join(<<",", " ">>, [j \in 1..Len(v.items) |-> PyRepr(v.items[j])])
            \o <<"]">>
      [] v.t = "dict" ->
            <<"{">>
            \o Join(<<",", " ">>,
                    [j \in 1..Len(v.keys) |->
                        StrReprPy(v.keys[j]) \o <<":", " ">> \o PyRepr(v.vals[j])])
            \o <<"}">>

\* str(v): a str is itself, every other value its repr
PyStr(v) == IF v.t = "str" THEN v.s ELSE PyRepr(v)

REPORT_TITLE_HEAD ==
    << "#"," ","C","V"," ","R","e","v","i","e","w"," ","U+2014"," " >>

REPORT_TITLE_TAIL ==
    << " ","(","G","e","m","i","n","i"," ","F","l","a","s","h"," ","2",
       ".","5",")" >>

REPORT_SCORE_HEAD ==
    << "*","*","M","a","t","c","h"," ","s","c","o","r","e",":","*","*",
       " " >>

REPORT_SCORE_TAIL ==
    << " ","/"," ","1","0","0"," ","U+00A0" >>

REPORT_VERDICT_HEAD ==
    << "*","*","V","e","r","d","i","c","t",":","*","*"," " >>

REPORT_SUMMARY_HEADING ==
    << "#","#"," ","S","u","m","m","a","r","y" >>

REPORT_STRENGTHS_HEADING ==
    << "#","#"," ","S","t","r","e","n","g","t","h","s"," ","(","f","r",
       "o","m"," ","C","V",")"," ","/"," ","G","a","l","v","e","n",
       "U+0101","s"," ","p","r","a","s","m","e","s"," ","u","n"," ","p",
       "i","e","r","e","d","z","e" >>

REPORT_MISSING_HEADING ==
    << "#","#"," ","M","i","s","s","i","n","g"," ","/"," ","N","o","t",
       " ","E","v","i","d","e","n","t"," ","R","e","q","u","i","r","e",
       "m","e","n","t","s"," ","(","f","r","o","m"," ","J","D",")"," ",
       "/"," ","T","r","U+016B","k","s","t","o","U+0161","U+0101","s",
       " ","p","r","a","s","U+012B","b","a","s" >>

\* f"- {s}"
Bullet(s) == <<"-", " ">> \o PyStr(s)

Bullets(items) == [j \in 1..Len(items) |-> Bullet(items[j])]

\* json_obj.get(k, []) of the two list fields
GetList(json_obj, k) == IF HasKey(json_obj, k) THEN Item(json_obj, k).items ELSE <<>>

\* the list md
ReportParts(json_obj, candidate_label) ==
    << REPORT_TITLE_HEAD \o candidate_label \o REPORT_TITLE_TAIL \o <<"\n">>,
       REPORT_SCORE_HEAD \o PyStr(Get(json_obj, K_match_score)) \o REPORT_SCORE_TAIL,
       REPORT_VERDICT_HEAD \o PyStr(Get(json_obj, K_verdict)) \o <<"\n">>,
       REPORT_SUMMARY_HEADING \o <<"\n">>,
       Get(json_obj, K_summary).s \o <<"\n">>,
       REPORT_STRENGTHS_HEADING \o <<"\n">> >>
    \o Bullets(GetList(json_obj, K_strengths))
    \o << <<"\n">> \o REPORT_MISSING_HEADING \o <<"\n">> >>
    \o Bullets(GetList(json_obj, K_missing_requirements))

\* out_text = "\n".join(md), the text written to out_path
generate_report_md(json_obj, candidate_label) ==
    Join(<<"\n">>, ReportParts(json_obj, candidate_label))

(***************************************************************************)
(* read_text and build_prompt.  A text is a sequence of lines, a line a    *)
(* sequence of segments; the empty str is the one empty line.              *)
(***************************************************************************)
IsSpace(seg) == seg \in {" ", "\t"}

\* str.lstrip
RECURSIVE LStrip(_)
LStrip(text) ==
    IF Head(text) = <<>>
    THEN IF Len(text) = 1 THEN text ELSE LStrip(Tail(text))
    ELSE IF IsSpace(Head(Head(text)))
         THEN LStrip(<<Tail(Head(text))>> \o Tail(text))
         ELSE text

Front(s) == SubSeq(s, 1, Len(s) - 1)

Last(s) == s[Len(s)]

\* str.rstrip
RECURSIVE RStrip(_)
RStrip(text) ==
    IF Last(text) = <<>>
    THEN IF Len(text) = 1 THEN text ELSE RStrip(Front(text))
    ELSE IF IsSpace(Last(Last(text)))
         THEN RStrip(Front(text) \o <<Front(Last(text))>>)
         ELSE text

\* read_text: f.read().strip()
read_text(text) == RStrip(LStrip(text))

DELIMITER == <<"------------------------------------------------------------">>

\* the template up to the job description
PROMPT_HEAD ==
    << <<>>,
       <<"You are a hiring-focused assistant. Compare a Job Description (JD) with a candidate CV and">>,
       <<"produce a single JSON object (no extra text, no commentary) that assesses fit.">>,
       <<>>,
       <<"Requirements for the JSON output (HR focus):">>,
       <<"- Respond ONLY with a single JSON object encoded in UTF-8 and valid JSON.">>,
       <<"- Do not include any explanatory text, markdown, or trailing commas.">>,
       <<"- IMPORTANT: The JSON must strictly adhere to the provided schema below.">>,
       <<>>,
       <<"JSON schema (exact keys):">>,
       <<"{">>,
       <<"  \"match_score\": integer between 0 and 100,">>,
       <<"  \"summary\": string (short, 1-3 sentences describing overall fit),">>,
       <<"  \"strengths\": array of strings (key skills/experience from CV that match JD),">>,
       <<"  \"missing_requirements\": array of strings (important JD requirements not visible in CV),">>,
       <<"  \"verdict\": one of [\"strong match\", \"possible match\", \"not a match\"]">>,
       <<"}">>,
       <<>>,
       <<"Rules to score and produce fields:">>,
       <<"1) Evaluate technical skills, years of experience, domain knowledge, tools, certifications,">>,
       <<"   and soft skills required in the JD. Give more weight to mandatory requirements.">>,
       <<"2) match_score: produce an integer 0-100. Use 0-39 = not a match, 40-69 = possible match, 70-100 = strong match.">>,
       <<"3) strengths: up to 6 bullet items pulled verbatim or paraphrased from the CV.">>,
       <<"4) missing_requirements: up to 6 items from the JD not found in the CV; prefer exact phrasing.">>,
       <<"5) verdict: map from match_score using the ranges above.">>,
       <<>>,
       <<"Now compare the Job Description and the CV below.">>,
       <<>>,
       <<"JOB DESCRIPTION:">>,
       DELIMITER >>

\* the template between the job description and the CV
PromptMiddle(candidate_label) ==
    << DELIMITER, <<>>, candidate_label \o <<" CV:">>, DELIMITER >>

\* the template after the CV
PROMPT_TAIL == << DELIMITER, <<>>, <<"Produce the JSON now.">>, <<>> >>

build_prompt(jd, cv, candidate_label) ==
    PROMPT_HEAD \o jd \o PromptMiddle(candidate_label) \o cv \o PROMPT_TAIL

\* label = f"Candidate {i}"
Label(n) == <<"Candidate ">> \o NatRepr(n)

(***************************************************************************)
(* call_gemini.  The answer to requests.post is                            *)
(*   [net, status, is_json, body]: whether the exchange itself failed, the *)
(*   HTTP status, whether resp.json() can decode the body, and the decoded *)
(*   body.  An evaluation that can raise returns [exc, v].                 *)
(***************************************************************************)
Raised(name) == [exc |-> name, v |-> JNull]

Value(v) == [exc |-> "none", v |-> v]

\* r[key] of Python, key a str or an int
Subscript(r, key) ==
    IF r.exc # "none" THEN r
    ELSE CASE r.v.t = "dict" ->
                IF key.t = "str" /\ HasKey(r.v, key.s)
                THEN Value(Item(r.v, key.s)) ELSE Raised("KeyError")
           [] r.v.t = "list" ->
                IF key.t # "int" THEN Raised("TypeError")
                ELSE IF key.n + 1 \in 1..Len(r.v.items)
                     THEN Value(r.v.items[key.n + 1]) ELSE Raised("IndexError")
           [] r.v.t = "str" ->
                IF key.t # "int" THEN Raised("TypeError")
                ELSE IF key.n + 1 \in 1..Len(r.v.s)
                     THEN Value(JStr(<<r.v.s[key.n + 1]>>)) ELSE Raised("IndexError")
           [] OTHER -> Raised("TypeError")

S_error == <<"e","r","r","o","r">>
S_message == <<"m","e","s","s","a","g","e">>
S_candidates == <<"c","a","n","d","i","d","a","t","e","s">>
S_content == <<"c","o","n","t","e","n","t">>
S_parts == <<"p","a","r","t","s">>
S_text == <<"t","e","x","t">>

\* 'error' in error_data
ErrorIn(v) ==
    CASE v.t = "dict" -> Value(JBool(HasKey(v, S_error)))
      [] v.t = "list" -> Value(JBool(\E j \in 1..Len(v.items) : v.items[j] = JStr(S_error)))
      [] v.t = "str" ->
           Value(JBool(\E j \in 1..Len(v.s) : Matches(v.s, j, S_error)))
      [] OTHER -> Raised("TypeError")

\* str.strip of a str of characters
RECURSIVE StripLeft(_)
StripLeft(s) == IF s # <<>> /\ IsWs(Head(s)) THEN StripLeft(Tail(s)) ELSE s

RECURSIVE StripRight(_)
StripRight(s) == IF s # <<>> /\ IsWs(Last(s)) THEN StripRight(Front(s)) ELSE s

\* the except branch of raise_for_status
ErrorBranch(resp) ==
    IF ~resp.is_json THEN Raised("RuntimeError")
    ELSE LET has == ErrorIn(resp.body)
             msg == Subscript(Subscript(Value(resp.body), JStr(S_error)), JStr(S_message))
         IN  IF has.exc # "none" THEN has
             ELSE IF ~has.v.b THEN Raised("RuntimeError")
             ELSE IF msg.exc # "none" THEN msg
             ELSE Raised("RuntimeError")

\* data['candidates'][0]['content']['parts'][0]['text']
NestedText(data) ==
    Subscript(Subscript(Subscript(Subscript(Subscript(Subscript(
        Value(data), JStr(S_candidates)), JInt(0)), JStr(S_content)),
        JStr(S_parts)), JInt(0)), JStr(S_text))

\* the two try blocks after data = resp.json()
Extract(data) ==
    LET text == NestedText(data)
        parsed == json_loads(StripRight(StripLeft(text.v.s)))
    IN  IF text.exc \in {"KeyError", "IndexError"} THEN Raised("RuntimeError")
        ELSE IF text.exc # "none" THEN text
        ELSE IF text.v.t # "str" THEN Raised("AttributeError")
        ELSE IF ~parsed.ok THEN Raised("RuntimeError")
        ELSE Value(parsed.v)

\* raise_for_status raises for a status from 400 on
IsErrorStatus(status) == status >= 400

call_gemini(resp) ==
    IF resp.net # "ok" THEN Raised("ConnectionError")
    ELSE IF IsErrorStatus(resp.status) THEN ErrorBranch(resp)
    ELSE IF ~resp.is_json THEN Raised("JSONDecodeError")
    ELSE Extract(resp.body)

(***************************************************************************)
(* The world the program runs in: the environment variable, the input      *)
(* files and the answers of the service.                                   *)
(***************************************************************************)
NumCandidates == 3

Candidates == 1..NumCandidates

\* GEMINI_API_KEY = "YOUR_API_KEY"
KEY_LITERAL == <<"Y","O","U","R","_","A","P","I","_","K","E","Y">>

KEY_PREFIX == <<"A","I","z","a","S","y","_">>

\* the environment variable: unset or empty, or a key
EnvValues == {<<>>, <<"A","I","z","a","S","y","_","k","1">>}

NoFile == [exists |-> FALSE, text |-> <<>>]

File(text) == [exists |-> TRUE, text |-> text]

JdFiles == {NoFile, File(<< <<"Senior Python developer">>, <<>> >>)}

CvFiles == {NoFile, File(<< <<>>, <<" ", "Anna: 5 years of Python">>, <<"Riga">>, <<" ">> >>)}

GoodPayload ==
    JDict(REQUIRED_KEYS,
          <<JInt(85), JStr(<<"o","k">>), JList(<<JStr(<<"P","y">>)>>), JList(<<>>),
            JStr(V_strong_match)>>)

\* the payload of the scenario: missing_requirements is missing
MissingKeyPayload ==
    JDict(<<K_match_score, K_summary, K_strengths, K_verdict>>,
          <<JInt(10), JStr(<<"n","o">>), JList(<<>>), JStr(V_not_a_match)>>)

\* a payload whose match_score is a JSON boolean
BoolScorePayload ==
    JDict(REQUIRED_KEYS,
          <<JBool(TRUE), JStr(<<"o","k">>), JList(<<>>), JList(<<JStr(<<"G","o">>)>>),
            JStr(V_possible_match)>>)

SamplePayloads == {GoodPayload, BoolScorePayload, MissingKeyPayload, JList(<<>>)}

\* the envelope of the service around the text it generated
Envelope(text) ==
    JDict(<<S_candidates>>,
          <<JList(<<JDict(<<S_content>>,
                          <<JDict(<<S_parts>>,
                                  <<JList(<<JDict(<<S_text>>, <<JStr(text)>>)>>)>>)>>)>>)>>)

Response(net, status, is_json, body) ==
    [net |-> net, status |-> status, is_json |-> is_json, body |-> body]

GeneratedTexts ==
    {json_dumps(p) : p \in SamplePayloads}
    \cup {<<" ">> \o json_dumps(GoodPayload) \o <<"\n">>}
    \cup {<<"S","o","r","r","y">>}

Responses ==
    {Response("ok", 200, TRUE, Envelope(t)) : t \in GeneratedTexts}
    \cup { Response("error", 0, FALSE, JNull),
           Response("ok", 429, TRUE,
                    JDict(<<S_error>>, <<JDict(<<S_message>>, <<JStr(<<"q","u","o","t","a">>)>>)>>)),
           Response("ok", 429, TRUE, JDict(<<S_error>>, <<JStr(<<"q","u","o","t","a">>)>>)),
           Response("ok", 500, FALSE, JNull),
           Response("ok", 200, FALSE, JNull),
           Response("ok", 200, TRUE, JDict(<<>>, <<>>)),
           Response("ok", 200, TRUE, JDict(<<S_candidates>>, <<JList(<<>>)>>)),
           Response("ok", 200, TRUE, JList(<<>>)) }

(***************************************************************************)
(* The files the program writes and the record of what a run did.          *)
(***************************************************************************)
FileKinds == {"prompt", "json", "raw", "report"}

\* prompts/prompt_cv{i}.md, outputs/cv{i}.json, cv{i}_raw.json, cv{i}_report.md
FileNames == FileKinds \X Candidates

Absent == [exists |-> FALSE, data |-> <<>>]

Written(data) == [exists |-> TRUE, data |-> data]

Event(e, f, c) == [e |-> e, f |-> f, i |-> c]

Happened(e, f, c) == \E j \in 1..Len(trace) : trace[j] = Event(e, f, c)

NoReturn == [got |-> FALSE, v |-> JNull]

pipeVars == <<i, environ, jd_file, cv_files, GEMINI_API_KEY, jd_text, cv_text,
              prompt_text, model_json, outputs, trace, returned, run>>

\* the state before the module code runs
Idle ==
    /\ i = 0
    /\ GEMINI_API_KEY = <<>>
    /\ jd_text = <<>>
    /\ cv_text = <<>>
    /\ prompt_text = <<>>
    /\ model_json = JNull
    /\ outputs = [f \in FileNames |-> Absent]
    /\ trace = <<>>
    /\ returned = [c \in Candidates |-> NoReturn]
    /\ run = 1

Init ==
    /\ pc = "startup"
    /\ environ \in EnvValues
    /\ jd_file \in JdFiles
    /\ cv_files \in [Candidates -> CvFiles]
    /\ Idle
    /\ arg = <<>>
    /\ res = <<>>

(***************************************************************************)
(* The module code and main, one action per step.                          *)
(***************************************************************************)
StartsWith(s, prefix) ==
    Len(s) >= Len(prefix) /\ SubSeq(s, 1, Len(prefix)) = prefix

\* the key the module code settles on
ConfiguredKey ==
    IF KEY_LITERAL = <<>> \/ StartsWith(KEY_LITERAL, KEY_PREFIX)
    THEN environ ELSE KEY_LITERAL

\* the module code: an empty key raises RuntimeError before main is called
Startup ==
    /\ pc = "startup"
    /\ GEMINI_API_KEY' = ConfiguredKey
    /\ pc' = IF ConfiguredKey = <<>> THEN "config_error" ELSE "read_jd"
    /\ UNCHANGED <<i, environ, jd_file, cv_files, jd_text, cv_text, prompt_text,
                   model_json, outputs, trace, returned, arg, res, run>>

\* the head of the for loop for candidate c
LoopAt(c) == IF c > NumCandidates THEN "done" ELSE "read_cv"

\* a variant of ReadJd: a missing job description is read as the empty text
ReadJdAsEmpty ==
    /\ pc = "read_jd"
    /\ jd_text' = IF jd_file.exists THEN read_text(jd_file.text) ELSE << <<>> >>
    /\ i' = 1
    /\ pc' = LoopAt(1)
    /\ UNCHANGED <<environ, jd_file, cv_files, GEMINI_API_KEY, cv_text, prompt_text,
                   model_json, outputs, trace, returned, arg, res, run>>

\* main: jd_text = read_text(JD_PATH), or the diagnostic and return
ReadJd ==
    /\ pc = "read_jd"
    /\ IF jd_file.exists
       THEN /\ jd_text' = read_text(jd_file.text)
            /\ i' = 1
            /\ pc' = LoopAt(1)
            /\ trace' = trace
       ELSE /\ trace' = Append(trace, Event("diagnostic", "jd", 0))
            /\ pc' = "done"
            /\ UNCHANGED <<jd_text, i>>
    /\ UNCHANGED <<environ, jd_file, cv_files, GEMINI_API_KEY, cv_text, prompt_text,
                   model_json, outputs, returned, arg, res, run>>

\* cv_text = read_text(cv_path), or the diagnostic and continue
ReadCv ==
    /\ pc = "read_cv"
    /\ IF cv_files[i].exists
       THEN /\ cv_text' = read_text(cv_files[i].text)
            /\ trace' = Append(trace, Event("read", "cv", i))
            /\ pc' = "build_prompt"
            /\ i' = i
       ELSE /\ trace' = Append(trace, Event("diagnostic", "cv", i))
            /\ i' = i + 1
            /\ pc' = LoopAt(i + 1)
            /\ cv_text' = cv_text
    /\ UNCHANGED <<environ, jd_file, cv_files, GEMINI_API_KEY, jd_text, prompt_text,
                   model_json, outputs, returned, arg, res, run>>

\* a variant of BuildPrompt: the request is sent with the prompt document not
\* yet saved
BuildPromptThenCall ==
    /\ pc = "build_prompt"
    /\ prompt_text' = build_prompt(jd_text, cv_text, Label(i))
    /\ trace' = Append(trace, Event("build", "prompt", i))
    /\ pc' = "call"
    /\ UNCHANGED <<i, environ, jd_file, cv_files, GEMINI_API_KEY, jd_text, cv_text,
                   model_json, outputs, returned, arg, res, run>>

\* prompt_text = build_prompt(jd_text, cv_text, candidate_label=label)
BuildPrompt ==
    /\ pc = "build_prompt"
    /\ prompt_text' = build_prompt(jd_text, cv_text, Label(i))
    /\ trace' = Append(trace, Event("build", "prompt", i))
    /\ pc' = "save_prompt"
    /\ UNCHANGED <<i, environ, jd_file, cv_files, GEMINI_API_KEY, jd_text, cv_text,
                   model_json, outputs, returned, arg, res, run>>

\* save_prompt_md(prompt_text, prompt_file)
SavePrompt ==
    /\ pc = "save_prompt"
    /\ outputs' = [outputs EXCEPT ![<<"prompt", i>>] = Written(prompt_text)]
    /\ trace' = Append(trace, Event("write", "prompt", i))
    /\ pc' = "call"
    /\ UNCHANGED <<i, environ, jd_file, cv_files, GEMINI_API_KEY, jd_text, cv_text,
                   prompt_text, model_json, returned, arg, res, run>>

\* the requests sent for candidate c so far
RequestCount(c) ==
    Cardinality({j \in 1..Len(trace) : trace[j].e = "request" /\ trace[j].i = c})

\* a variant of CallGemini: the first RuntimeError of a candidate is retried
CallGeminiRetry ==
    /\ pc = "call"
    /\ \E resp \in Responses :
         LET out == call_gemini(resp)
         IN  CASE out.exc = "none" ->
                    /\ model_json' = out.v
                    /\ returned' = [returned EXCEPT ![i] = [got |-> TRUE, v |-> out.v]]
                    /\ trace' = Append(trace, Event("request", "returned", i))
                    /\ pc' = "validate"
                    /\ i' = i
               [] out.exc = "RuntimeError" /\ RequestCount(i) = 0 ->
                    /\ trace' = Append(trace, Event("request", "failed", i))
                    /\ UNCHANGED <<pc, i, model_json, returned>>
               [] out.exc = "RuntimeError" /\ RequestCount(i) > 0 ->
                    /\ trace' = trace \o <<Event("request", "failed", i),
                                            Event("diagnostic", "call", i)>>
                    /\ i' = i + 1
                    /\ pc' = LoopAt(i + 1)
                    /\ UNCHANGED <<model_json, returned>>
               [] OTHER ->
                    /\ trace' = Append(trace, Event("request", "failed", i))
                    /\ pc' = "crashed"
                    /\ UNCHANGED <<i, model_json, returned>>
    /\ UNCHANGED <<environ, jd_file, cv_files, GEMINI_API_KEY, jd_text, cv_text,
                   prompt_text, outputs, arg, res, run>>

\* model_json = call_gemini(prompt_text): the return, `except RuntimeError`
\* with continue, or any other exception, which nothing in main catches
CallGemini ==
    /\ pc = "call"
    /\ \E resp \in Responses :
         LET out == call_gemini(resp)
         IN  CASE out.exc = "none" ->
                    /\ model_json' = out.v
                    /\ returned' = [returned EXCEPT ![i] = [got |-> TRUE, v |-> out.v]]
                    /\ trace' = Append(trace, Event("request", "returned", i))
                    /\ pc' = "validate"
                    /\ i' = i
               [] out.exc = "RuntimeError" ->
                    /\ trace' = trace \o <<Event("request", "failed", i),
                                            Event("diagnostic", "call", i)>>
                    /\ i' = i + 1
                    /\ pc' = LoopAt(i + 1)
                    /\ UNCHANGED <<model_json, returned>>
               [] OTHER ->
                    /\ trace' = Append(trace, Event("request", "failed", i))
                    /\ pc' = "crashed"
                    /\ UNCHANGED <<i, model_json, returned>>
    /\ UNCHANGED <<environ, jd_file, cv_files, GEMINI_API_KEY, jd_text, cv_text,
                   prompt_text, outputs, arg, res, run>>

\* a variant of Validate: a dict without missing_requirements is given an
\* empty list for it before the check
ValidateWithDefaults ==
    /\ pc = "validate"
    /\ model_json' = IF model_json.t = "dict" /\ ~HasKey(model_json, K_missing_requirements)
                     THEN SetItem(model_json, K_missing_requirements, JList(<<>>))
                     ELSE model_json
    /\ pc' = IF validate_hr_json(model_json') THEN "write_json" ELSE "write_raw"
    /\ trace' = Append(trace, Event("validate", "", i))
    /\ UNCHANGED <<i, environ, jd_file, cv_files, GEMINI_API_KEY, jd_text, cv_text,
                   prompt_text, outputs, returned, arg, res, run>>

\* if not validate_hr_json(model_json)
Validate ==
    /\ pc = "validate"
    /\ pc' = IF validate_hr_json(model_json) THEN "write_json" ELSE "write_raw"
    /\ trace' = Append(trace, Event("validate", "", i))
    /\ UNCHANGED <<i, environ, jd_file, cv_files, GEMINI_API_KEY, jd_text, cv_text,
                   prompt_text, model_json, outputs, returned, arg, res, run>>

\* a variant of WriteRaw: the rejected payload goes to cv{i}.json
WriteRawAsResult ==
    /\ pc = "write_raw"
    /\ outputs' = [outputs EXCEPT ![<<"json", i>>] = Written(json_dumps(model_json))]
    /\ trace' = trace \o <<Event("diagnostic", "validation", i), Event("write", "json", i)>>
    /\ i' = i + 1
    /\ pc' = LoopAt(i + 1)
    /\ UNCHANGED <<environ, jd_file, cv_files, GEMINI_API_KEY, jd_text, cv_text,
                   prompt_text, model_json, returned, arg, res, run>>

\* the warning, cv{i}_raw.json and continue
WriteRaw ==
    /\ pc = "write_raw"
    /\ outputs' = [outputs EXCEPT ![<<"raw", i>>] = Written(json_dumps(model_json))]
    /\ trace' = trace \o <<Event("diagnostic", "validation", i), Event("write", "raw", i)>>
    /\ i' = i + 1
    /\ pc' = LoopAt(i + 1)
    /\ UNCHANGED <<environ, jd_file, cv_files, GEMINI_API_KEY, jd_text, cv_text,
                   prompt_text, model_json, returned, arg, res, run>>

\* cv{i}.json
WriteJson ==
    /\ pc = "write_json"
    /\ outputs' = [outputs EXCEPT ![<<"json", i>>] = Written(json_dumps(model_json))]
    /\ trace' = Append(trace, Event("write", "json", i))
    /\ pc' = "report"
    /\ UNCHANGED <<i, environ, jd_file, cv_files, GEMINI_API_KEY, jd_text, cv_text,
                   prompt_text, model_json, returned, arg, res, run>>

\* generate_report_md(model_json, label, report_path)
GenerateReport ==
    /\ pc = "report"
    /\ outputs' = [outputs EXCEPT
                     ![<<"report", i>>] = Written(generate_report_md(model_json, Label(i)))]
    /\ trace' = Append(trace, Event("write", "report", i))
    /\ pc' = "sleep"
    /\ UNCHANGED <<i, environ, jd_file, cv_files, GEMINI_API_KEY, jd_text, cv_text,
                   prompt_text, model_json, returned, arg, res, run>>

\* time.sleep(1), the last statement of the loop body
Sleep ==
    /\ pc = "sleep"
    /\ trace' = Append(trace, Event("sleep", "", i))
    /\ i' = i + 1
    /\ pc' = LoopAt(i + 1)
    /\ UNCHANGED <<environ, jd_file, cv_files, GEMINI_API_KEY, jd_text, cv_text,
                   prompt_text, model_json, outputs, returned, arg, res, run>>

\* the process has exited: main returned, or an exception ended it
RunEnded == pc \in {"done", "crashed", "config_error"}

Next ==
    \/ Startup
    \/ ReadJd
    \/ ReadCv
    \/ BuildPrompt
    \/ SavePrompt
    \/ CallGemini
    \/ Validate
    \/ WriteRaw
    \/ WriteJson
    \/ GenerateReport
    \/ Sleep

Spec == Init /\ [][Next]_vars

(***************************************************************************)
(* Several runs of the script in one working directory.  A new process     *)
(* starts with fresh globals and locals; OUTPUT_DIR.mkdir(exist_ok=True)   *)
(* and PROMPT_DIR.mkdir(exist_ok=True) keep what the directories hold, and *)
(* no statement of the script deletes a file.  The candidate files may     *)
(* have changed between two runs.                                          *)
(***************************************************************************)
Rerun ==
    /\ RunEnded
    /\ run < MaxRuns
    /\ run' = run + 1
    /\ pc' = "startup"
    /\ i' = 0
    /\ GEMINI_API_KEY' = <<>>
    /\ jd_text' = <<>>
    /\ cv_text' = <<>>
    /\ prompt_text' = <<>>
    /\ model_json' = JNull
    /\ trace' = <<>>
    /\ returned' = [c \in Candidates |-> NoReturn]
    /\ cv_files' \in [Candidates -> CvFiles]
    /\ UNCHANGED <<environ, jd_file, outputs, arg, res>>

NextRuns == Next \/ Rerun

SpecRuns == Init /\ [][NextRuns]_vars

(***************************************************************************)
(* Function specifications: the inputs are drawn in the initial state and  *)
(* one action applies the function.                                        *)
(***************************************************************************)
NoWorld ==
    /\ environ = <<>>
    /\ jd_file = NoFile
    /\ cv_files = [c \in Candidates |-> NoFile]
    /\ Idle

\* arrays of up to MaxItems strings
ListValues == {JList([j \in 1..n |-> JStr(<<"x">>)]) : n \in 0..MaxItems}

\* values of every JSON type
AllValues ==
    { JNull, JBool(TRUE), JInt(0 - 1), JInt(0), JInt(100), JInt(101),
      JFloat(FALSE, 50, <<5>>), JStr(V_not_a_match), JStr(<<"x">>), JDict(<<>>, <<>>) }
    \cup ListValues

\* a key left out, or a key with one of the values
Options(values) ==
    {[has |-> FALSE, v |-> JNull]} \cup {[has |-> TRUE, v |-> x] : x \in values}

\* the dict that holds, in the order of REQUIRED_KEYS, the keys opts gives a value
RECURSIVE BuildDict(_, _, _)
BuildDict(opts, j, acc) ==
    IF j > Len(REQUIRED_KEYS) THEN acc
    ELSE BuildDict(opts, j + 1,
                   IF opts[j].has THEN SetItem(acc, REQUIRED_KEYS[j], opts[j].v) ELSE acc)

DictOf(opts) == BuildDict(opts, 1, JDict(<<>>, <<>>))

\* the payloads validate_hr_json is applied to: a value of any type, or a dict
\* in which each required key is left out or has a value of any type
InitValidate ==
    /\ pc = "payload"
    /\ \/ arg \in AllValues
       \/ \E opts \in [1..Len(REQUIRED_KEYS) -> Options(AllValues)] : arg = DictOf(opts)
    /\ res = FALSE
    /\ NoWorld

ApplyValidate ==
    /\ pc = "payload"
    /\ res' = validate_hr_json(arg)
    /\ pc' = "validated"
    /\ UNCHANGED <<arg, pipeVars>>

SpecValidate == InitValidate /\ [][ApplyValidate]_vars

\* documents put together from an ordinary line and the lines of the template
\* between the two input texts
Chunks == { << <<"x">> >>, PromptMiddle(Label(1)) }

RECURSIVE DocsOf(_)
DocsOf(n) ==
    IF n = 1 THEN Chunks ELSE {d \o c : d \in DocsOf(n - 1), c \in Chunks}

\* the input texts as main passes them: read with read_text
PromptTexts == {read_text(d) : d \in UNION {DocsOf(n) : n \in 1..MaxChunks}}

TextPairs == [jd : PromptTexts, cv : PromptTexts]

InitPrompt ==
    /\ pc = "texts"
    /\ arg \in TextPairs \X TextPairs
    /\ res = <<>>
    /\ NoWorld

\* build_prompt on each of two pairs of input texts, with the same label
ApplyBuildPrompt ==
    /\ pc = "texts"
    /\ res' = << build_prompt(arg[1].jd, arg[1].cv, Label(1)),
                 build_prompt(arg[2].jd, arg[2].cv, Label(1)) >>
    /\ pc' = "prompts"
    /\ UNCHANGED <<arg, pipeVars>>

SpecPrompt == InitPrompt /\ [][ApplyBuildPrompt]_vars

\* the values tried for each field of a payload that is written and re-read
ScoreValues ==
    { JInt(0), JInt(85), JInt(101), JInt(0 - 1), JBool(TRUE), JFloat(FALSE, 85, <<>>),
      JStr(<<"8","5">>), JNull }

SummaryValues == { JStr(<<"a","\"","\\","\n","b">>), JStr(<<>>), JInt(1) }

StrengthsValues == ListValues \cup { JDict(<<>>, <<>>), JList(<<JList(<<>>), JInt(7)>>) }

MissingValues == ListValues \cup { JStr(<<"[","]">>) }

VerdictValues ==
    { JStr(V_strong_match), JStr(V_possible_match), JStr(<<"x">>),
      JList(<<JStr(V_strong_match)>>) }

RoundTripPayloads ==
    AllValues
    \cup { DictOf(<<a, b, c, d, e>>) :
             a \in Options(ScoreValues), b \in Options(SummaryValues),
             c \in Options(StrengthsValues), d \in Options(MissingValues),
             e \in Options(VerdictValues) }

InitRoundTrip ==
    /\ pc = "decoded"
    /\ arg \in RoundTripPayloads
    /\ res = [text |-> <<>>, back |-> [ok |-> FALSE, v |-> JNull]]
    /\ NoWorld

\* write_text(json.dumps(model_json, ensure_ascii=False, indent=2)), and the
\* written text decoded with json.loads
WriteAndReread ==
    /\ pc = "decoded"
    /\ res' = [text |-> json_dumps(arg), back |-> json_loads(json_dumps(arg))]
    /\ pc' = "reread"
    /\ UNCHANGED <<arg, pipeVars>>

SpecRoundTrip == InitRoundTrip /\ [][WriteAndReread]_vars

\* entries of strengths and missing_requirements: a phrase, a str with a line
\* break in it, and a value that is no str
ReportEntries ==
    { JStr(<<"P","y">>),
      JStr(<<"S","Q","L","\n","-"," ","G","o">>),
      JList(<<JStr(<<"C","\n">>)>>) }

EntryLists == UNION {[1..n -> ReportEntries] : n \in 0..MaxEntries}

\* generate_report_md applied to a payload that validates, as main applies it
InitReport ==
    /\ pc = "payload"
    /\ \E sc \in {JInt(85), JBool(TRUE)},
          su \in {<<"o","k">>, <<"o","k","\n","f","i","t">>},
          st \in EntryLists, mi \in EntryLists,
          ve \in {V_strong_match, V_possible_match, V_not_a_match},
          c \in Candidates :
         arg = [json_obj |-> JDict(REQUIRED_KEYS,
                                   <<sc, JStr(su), JList(st), JList(mi), JStr(ve)>>),
                label |-> Label(c)]
    /\ validate_hr_json(arg.json_obj)
    /\ res = <<>>
    /\ NoWorld

ApplyReport ==
    /\ pc = "payload"
    /\ pc' = "rendered"
    /\ res' = generate_report_md(arg.json_obj, arg.label)
    /\ UNCHANGED <<arg, pipeVars>>

SpecReport == InitReport /\ [][ApplyReport]_vars

(***************************************************************************)
(* The properties.                                                         *)
(***************************************************************************)
\* the iteration of candidate c is over
Over(c) == i > c \/ pc = "done"

Requested(c) == Happened("request", "returned", c) \/ Happened("request", "failed", c)

Wrote(kind, c) == Happened("write", kind, c)

\* the terminal states of a candidate
Validated(c) == Wrote("json", c) /\ Wrote("report", c)

Rejected(c) == Wrote("raw", c)

SkippedCall(c) == Happened("diagnostic", "call", c)

SkippedFile(c) == Happened("diagnostic", "cv", c)

\* C1: with the job description present, a failed model call never aborts the
\* run: the candidate whose request failed gets the skip diagnostic, and when
\* the run has ended every candidate is Validated, Rejected or Skipped.
C1_FailedCallNeverAborts ==
    jd_file.exists =>
        /\ \A c \in Candidates : Happened("request", "failed", c) => SkippedCall(c)
        /\ RunEnded =>
             \A c \in Candidates :
                 Validated(c) \/ Rejected(c) \/ SkippedCall(c) \/ SkippedFile(c)

\* C2: whatever an earlier candidate ended in, a pause lies between anything
\* the run does for it and anything the run does for a later candidate; so a
\* pause lies between any two requests.
C2_PauseBetweenCandidates ==
    \A a, b \in 1..Len(trace) :
        (a < b /\ trace[a].i >= 1 /\ trace[a].i < trace[b].i) =>
            \E m \in a..b : trace[m].e = "sleep"

\* C4: with the environment variable unset or empty the process gets no
\* further than the configuration error, and a request is only ever sent with
\* the credential the environment variable supplied.
C4_CredentialFromEnvironment ==
    /\ environ = <<>> => pc \in {"startup", "config_error"}
    /\ \A c \in Candidates :
         Requested(c) => environ # <<>> /\ GEMINI_API_KEY = environ

\* C5: in one run, a candidate whose call returned a payload that validates
\* gets cv{i}.json with that payload and the report and no cv{i}_raw.json; one
\* whose payload does not validate gets only cv{i}_raw.json.  A cv{i}.json
\* holds a payload that validates, a cv{i}_raw.json one that does not, and a
\* report is rendered from a payload that validates.
C5_ArtifactsFollowValidation ==
    \A c \in Candidates :
        LET p == returned[c].v
            text == json_dumps(p)
        IN  /\ (Over(c) /\ returned[c].got) =>
                 IF validate_hr_json(p)
                 THEN /\ Wrote("json", c) /\ Wrote("report", c) /\ ~Wrote("raw", c)
                      /\ outputs[<<"json", c>>] = Written(text)
                 ELSE /\ Wrote("raw", c) /\ ~Wrote("json", c) /\ ~Wrote("report", c)
                      /\ outputs[<<"raw", c>>] = Written(text)
            /\ Wrote("json", c) =>
                 /\ returned[c].got /\ outputs[<<"json", c>>] = Written(text)
                 /\ validate_hr_json(json_loads(outputs[<<"json", c>>].data).v)
            /\ Wrote("raw", c) =>
                 /\ returned[c].got /\ outputs[<<"raw", c>>] = Written(text)
                 /\ ~validate_hr_json(json_loads(outputs[<<"raw", c>>].data).v)
            /\ Wrote("report", c) =>
                 /\ returned[c].got /\ validate_hr_json(p)
                 /\ outputs[<<"report", c>>] = Written(generate_report_md(p, Label(c)))

\* a run that ended with one candidate validated and another rejected
C5_Witness ==
    /\ pc = "done"
    /\ \E c, d \in Candidates :
         /\ Validated(c) /\ validate_hr_json(returned[c].v)
         /\ Rejected(d) /\ returned[d].got /\ ~validate_hr_json(returned[d].v)

\* C6: at most one request is sent per candidate, and a candidate whose call
\* failed has one artifact written in the run, its prompt document.
C6_NoRetry ==
    \A c \in Candidates :
        /\ RequestCount(c) <= 1
        /\ Happened("request", "failed", c) =>
             /\ {k \in FileKinds : Wrote(k, c)} = {"prompt"}
             /\ Cardinality({j \in 1..Len(trace) : trace[j].e = "write" /\ trace[j].i = c}) = 1
             /\ outputs[<<"prompt", c>>].exists
             /\ \A k \in FileKinds \ {"prompt"} : ~outputs[<<k, c>>].exists

\* a run that ended after the call of one candidate failed and a later
\* candidate was requested
C6_Witness ==
    /\ pc = "done"
    /\ \E c, d \in Candidates :
         c < d /\ Happened("request", "failed", c) /\ SkippedCall(c) /\ Requested(d)

\* C7: without the job description file the run ends with the diagnostic and
\* nothing else: no candidate is read, no request is sent, no file is written.
C7_MissingJobDescription ==
    ~jd_file.exists =>
        /\ pc \in {"startup", "read_jd", "done"}
        /\ trace \in {<<>>, <<Event("diagnostic", "jd", 0)>>}
        /\ pc = "done" => trace = <<Event("diagnostic", "jd", 0)>>
        /\ \A f \in FileNames : ~outputs[f].exists

\* the run has ended without the job description although candidates exist
C7_Witness ==
    /\ ~jd_file.exists
    /\ pc = "done"
    /\ \A c \in Candidates : cv_files[c].exists

\* C8: with the job description present, when the run has ended every absent
\* candidate has its skip diagnostic, no request and no artifact, and every
\* present candidate reached a terminal state, its prompt document written
\* under its position in the list and with the label of that position.
C8_MissingCandidateSkipsOnlyItself ==
    (jd_file.exists /\ RunEnded) =>
        \A c \in Candidates :
            IF cv_files[c].exists
            THEN /\ Validated(c) \/ Rejected(c) \/ SkippedCall(c)
                 /\ outputs[<<"prompt", c>>] =
                        Written(build_prompt(read_text(jd_file.text),
                                             read_text(cv_files[c].text), Label(c)))
            ELSE /\ SkippedFile(c)
                 /\ ~Requested(c)
                 /\ \A k \in FileKinds : ~Wrote(k, c) /\ ~outputs[<<k, c>>].exists

\* what the schema asks of a payload: a dict with the five keys, match_score
\* an int (no bool) within 0..100, summary a str, strengths and
\* missing_requirements lists, verdict one of the three literals
ConformsToSchema(p) ==
    /\ p.t = "dict"
    /\ \A j \in 1..Len(REQUIRED_KEYS) : HasKey(p, REQUIRED_KEYS[j])
    /\ Get(p, K_match_score).t = "int"
    /\ Get(p, K_match_score).n \in 0..100
    /\ Get(p, K_summary).t = "str"
    /\ Get(p, K_strengths).t = "list"
    /\ Get(p, K_missing_requirements).t = "list"
    /\ Get(p, K_verdict).t = "str"
    /\ Get(p, K_verdict).s \in {V_strong_match, V_possible_match, V_not_a_match}

\* C3: validate_hr_json returns true exactly for the payloads that conform to
\* the schema.
C3_ValidateIffConforms ==
    pc = "validated" => (res <=> ConformsToSchema(arg))

\* C9: for a fixed label build_prompt is injective in the pair of input texts:
\* equal prompts come from equal pairs.
C9_PromptInjective ==
    pc = "prompts" => (res[1] = res[2] => arg[1] = arg[2])

\* C10: a payload written as JSON the way main writes it and decoded again
\* validates as the payload did.
C10_RoundTripValidatesAlike ==
    pc = "reread" =>
        /\ res.back.ok
        /\ validate_hr_json(res.back.v) <=> validate_hr_json(arg)

\* a valid payload with a non-empty list has been written and re-read
C10_Witness ==
    /\ pc = "reread"
    /\ res.back.ok
    /\ validate_hr_json(arg)
    /\ Get(arg, K_strengths).items # <<>>
    /\ res.text # <<>>

\* the position of the first event (e, f, c) of the run, 0 when there is none
Pos(e, f, c) ==
    IF Happened(e, f, c)
    THEN CHOOSE j \in 1..Len(trace) :
             /\ trace[j] = Event(e, f, c)
             /\ \A k \in 1..(j - 1) : trace[k] # Event(e, f, c)
    ELSE 0

\* the events that end the iteration of candidate c
TerminalEvents(c) ==
    { Event("diagnostic", "cv", c), Event("diagnostic", "call", c),
      Event("write", "raw", c), Event("write", "report", c) }

\* C11: per candidate the steps happen in the order build prompt, save prompt
\* document, send request, validate, write result: every request of a
\* candidate follows the writing of its prompt document, validate follows the
\* returned request, every cv{i}.json, cv{i}_raw.json and cv{i}_report.md
\* follows validate, the report follows cv{i}.json; the candidates are handled
\* in list order and nothing is done for a candidate before every earlier
\* candidate has reached a terminal state.
C11_StepsInOrder ==
    /\ \A c \in Candidates : \A j \in 1..Len(trace) :
         LET ev == trace[j]
         IN  ev.i = c =>
               /\ (ev.e = "write" /\ ev.f = "prompt") =>
                      Pos("build", "prompt", c) \in 1..(j - 1)
               /\ ev.e = "request" =>
                      Pos("write", "prompt", c) \in 1..(j - 1)
               /\ ev.e = "validate" =>
                      Pos("request", "returned", c) \in 1..(j - 1)
               /\ (ev.e = "write" /\ ev.f \in {"json", "raw", "report"}) =>
                      Pos("validate", "", c) \in 1..(j - 1)
               /\ (ev.e = "write" /\ ev.f = "report") =>
                      Pos("write", "json", c) \in 1..(j - 1)
    /\ \A a, b \in 1..Len(trace) : a < b => trace[a].i <= trace[b].i
    /\ \A b \in 1..Len(trace) : \A c \in Candidates :
         c < trace[b].i => \E a \in 1..(b - 1) : trace[a] \in TerminalEvents(c)
    /\ pc \in {"call", "validate", "write_raw", "write_json", "report", "sleep"} =>
         /\ Wrote("prompt", i)
         /\ \A c \in Candidates : c < i => \E a \in 1..Len(trace) : trace[a] \in TerminalEvents(c)

\* a run that ended with every candidate requested, one validated and the
\* next one rejected
C11_Witness ==
    /\ pc = "done"
    /\ \A c \in Candidates : Requested(c)
    /\ \E c \in Candidates : c < NumCandidates /\ Validated(c) /\ Rejected(c + 1)

\* C12: over the runs that share one output directory, the directory never
\* holds cv{i}_raw.json together with cv{i}.json or cv{i}_report.md of the
\* same candidate, and when a run has ended in which candidate i was Rejected
\* or Skipped, no cv{i}_report.md exists.
C12_ArtifactsNeverConfused ==
    \A c \in Candidates :
        /\ ~(/\ outputs[<<"raw", c>>].exists
             /\ outputs[<<"json", c>>].exists \/ outputs[<<"report", c>>].exists)
        /\ (RunEnded /\ (Rejected(c) \/ SkippedCall(c) \/ SkippedFile(c))) =>
               ~outputs[<<"report", c>>].exists

\* C13: the payload call_gemini returned for a candidate is not changed on
\* its way to the file: from validate to the end of the iteration main holds
\* that payload, and the cv{i}.json or cv{i}_raw.json written in the run
\* decodes to exactly that payload, the same keys in the same order with the
\* same values.
C13_PayloadUnchanged ==
    \A c \in Candidates :
        /\ (i = c /\ pc \in {"validate", "write_raw", "write_json", "report", "sleep"}) =>
               returned[c].got /\ model_json = returned[c].v
        /\ \A k \in {"json", "raw"} :
               Wrote(k, c) =>
                   /\ returned[c].got
                   /\ json_loads(outputs[<<k, c>>].data) = [ok |-> TRUE, v |-> returned[c].v]

\* a run that ended with a dict without missing_requirements written as raw
\* file and a payload with a strength written as result, the report rendered
C13_Witness ==
    /\ pc = "done"
    /\ \E c, d \in Candidates :
         /\ Wrote("raw", c) /\ returned[c].v = MissingKeyPayload
         /\ Wrote("json", d) /\ Wrote("report", d) /\ returned[d].v = GoodPayload

\* the lines of a text: text.split("\n")
LineStarts(t) == {1} \cup {j + 1 : j \in {k \in 1..Len(t) : t[k] = "\n"}}

LineEnd(t, s) ==
    CHOOSE e \in s..(Len(t) + 1) :
        /\ e = Len(t) + 1 \/ t[e] = "\n"
        /\ \A k \in s..(e - 1) : t[k] # "\n"

SplitLines(t) ==
    [n \in 1..Cardinality(LineStarts(t)) |->
        LET s == CHOOSE x \in LineStarts(t) :
                     Cardinality({y \in LineStarts(t) : y < x}) = n - 1
        IN  SubSeq(t, s, LineEnd(t, s) - 1)]

\* a line of the report that is a bullet
IsBulletLine(l) == Len(l) >= 2 /\ l[1] = "-" /\ l[2] = " "

\* the bullet lines among lines[from..to], in order
BulletLines(lines, from, to) == SelectSeq(SubSeq(lines, from, to), IsBulletLine)

\* the bullet line of each entry of a list: "- " and the first line of str(entry)
EntryBullets(items) ==
    [j \in 1..Len(items) |-> SplitLines(<<"-", " ">> \o PyStr(items[j]))[1]]

\* C14: the report of a validated payload has the title with the label, the
\* score and the verdict, then the headings of summary, strengths and missing
\* requirements once each and in this order with the summary under its
\* heading; the bullets between the strengths heading and the missing heading
\* are one per entry of strengths in the order of the list, the bullets after
\* the missing heading one per entry of missing_requirements in the order of
\* the list, so an empty list gives no bullet.
C14_ReportLayout ==
    pc = "rendered" =>
        LET p == arg.json_obj
            lines == SplitLines(res)
            sum == {j \in 1..Len(lines) : lines[j] = REPORT_SUMMARY_HEADING}
            str == {j \in 1..Len(lines) : lines[j] = REPORT_STRENGTHS_HEADING}
            mis == {j \in 1..Len(lines) : lines[j] = REPORT_MISSING_HEADING}
        IN  /\ Len(lines) >= 4
            /\ lines[1] = REPORT_TITLE_HEAD \o arg.label \o REPORT_TITLE_TAIL
            /\ lines[3] = REPORT_SCORE_HEAD \o PyStr(Get(p, K_match_score))
                              \o REPORT_SCORE_TAIL
            /\ lines[4] = REPORT_VERDICT_HEAD \o Get(p, K_verdict).s
            /\ Cardinality(sum) = 1 /\ Cardinality(str) = 1 /\ Cardinality(mis) = 1
            /\ \E a \in sum, b \in str, c \in mis :
                 /\ 4 < a /\ a + 2 < b /\ b < c
                 /\ lines[a + 2] = SplitLines(Get(p, K_summary).s)[1]
                 /\ BulletLines(lines, b + 1, c - 1) = EntryBullets(Get(p, K_strengths).items)
                 /\ BulletLines(lines, c + 1, Len(lines))
                        = EntryBullets(Get(p, K_missing_requirements).items)

====
